---- MODULE Spec2Model ----
(***************************************************************************)
(* Model of the Canton wallet adapter (src/app/misc/adapter.ts) and of the *)
(* connect button of the page header (src/app/components/StickyHeader.tsx).*)
(*                                                                         *)
(* The adapter is a module with four variables (_wallet and the three      *)
(* callbacks registered by init) in front of the object a browser          *)
(* extension injects at window.nightly.canton.  JavaScript runs one task   *)
(* at a time: an action of this model is one run-to-completion piece of a  *)
(* function, from its call or from the settling of the promise it awaits   *)
(* to its next await or its return.                                        *)
(*                                                                         *)
(* Environment: the extension injects window.nightly as a whole, and the   *)
(* page may lose it again (disconnect() itself provides for a provider     *)
(* that is gone while _wallet is still set); the provider settles each     *)
(* promise it handed out by resolving or by rejecting it; the wallet       *)
(* answers a forwarded request with any of its results.                    *)
(*                                                                         *)
(* Callbacks: connect() invokes the registered onAccept inside its try     *)
(* block, so the adapter's own control flow depends on whether it throws,  *)
(* and an onAccept that throws is among the callbacks a caller registers.  *)
(* What any other callback throws passes through the adapter untouched;    *)
(* onReject, onDisconnect and onResponse are taken to return.              *)
(*                                                                         *)
(* Spec    : any caller uses init / connect / eagerConnect / disconnect.   *)
(* SpecOps : any caller uses the pass-through operations, while connects   *)
(*           and disconnects go on (one pass-through call at a time).      *)
(* SpecUI  : the adapter is driven by the StickyHeader component only.     *)
(***************************************************************************)
EXTENDS Integers, Sequences, FiniteSets, TLC

\* ------------------------------------------------------------------ bounds
\* connect / disconnect / eagerConnect calls issued through the API in one run
MaxCalls == 2
\* clicks on the connect button in one run of the page
MaxClicks == 3
\* clicks on the page's other buttons (send, accept / reject, refresh)
MaxActions == 2

\* --------------------------------------------------------------- constants
NULL == "null"
\* the object at window.nightly.canton (NightlyCantonProvider extends CantonWallet)
PROVIDER == "window.nightly.canton"
NoWalletConnected == "No wallet connected"

SIGN_REQUEST_APPROVED == "sign_request_approved"
SIGN_REQUEST_REJECTED == "sign_request_rejected"
SIGN_REQUEST_ERROR == "sign_request_error"

\* the adapter's promise-returning pass-through operations
PromiseOps ==
  { "createTransferCommand", "createTransactionChoiceCommand",
    "getHoldingTransactions", "getPendingTransactions", "getHoldingUtxos",
    "getActiveContractsByInterfaceId", "getActiveContractsByTemplateId" }

\* the adapter's callback-style pass-through operations
CallbackOps == { "signMessage", "submitTransactionCommand" }

\* arguments a caller passes: NULL for the operations that take none
OpArgs(op) ==
  IF op \in {"getHoldingTransactions", "getPendingTransactions", "getHoldingUtxos"}
  THEN {NULL}
  ELSE {"arg1", "arg2"}

\* what the wallet's promise settles to
WalletResults ==
  { [kind |-> "resolved", value |-> "result"],
    [kind |-> "resolved", value |-> NULL],
    [kind |-> "rejected", value |-> "wallet error"] }

\* what the wallet passes to the onResponse it was given
WalletResponses ==
  { [type |-> SIGN_REQUEST_APPROVED, data |-> "approved"],
    [type |-> SIGN_REQUEST_REJECTED, data |-> "reason"],
    [type |-> SIGN_REQUEST_ERROR, data |-> "wallet error"] }

\* the pending-transactions list: the empty array, or one with a transaction
\* of type "receiver"
NoTransactions == "[]"
Transactions == "[tx]"

\* what the wallet's getPendingTransactions promise settles to
FetchResults ==
  { [kind |-> "resolved", value |-> Transactions],
    [kind |-> "resolved", value |-> NoTransactions],
    [kind |-> "resolved", value |-> NULL],
    [kind |-> "rejected", value |-> "wallet error"] }

\* a send-transfer or accept/reject-choice action of the page
NoAction ==
  [ kind     |-> "none",    \* "transfer", "choice"
    pc       |-> "idle",    \* "create", "submit", "done"
    outcome  |-> "none",    \* how the promise given to toast.promise settled
    approved |-> FALSE,     \* the wallet answered SIGN_REQUEST_APPROVED
    toasts   |-> {} ]       \* the notifications shown

\* callbacks a caller of init may register; the StickyHeader registers its own
AcceptCallbacks == {"onAccept", "onAcceptThrows"}
RejectCallbacks == {"onReject"}
DisconnectCallbacks == {"onDisconnect"}
UiOnAccept == "StickyHeader.onAccept"
UiOnReject == "StickyHeader.onReject"
UiOnDisconnect == "StickyHeader.onDisconnect"

\* the answer of the provider's isConnected, "missing" when it has no such function
IsConnectedAnswers == {"missing", "false", "true"}

VARIABLES
  nightly,                \* window.nightly?.canton: NULL or PROVIDER
  _wallet,                \* adapter.ts:115
  _onAcceptCallback,      \* adapter.ts:116
  _onRejectCallback,      \* adapter.ts:117
  _onDisconnectCallback,  \* adapter.ts:118
  lastInit,               \* the callbacks in the options of the latest init call
  calls,                  \* the connect / disconnect / eagerConnect calls, in issue order
  req,                    \* the latest pass-through call and what became of it
  wallet,                 \* StickyHeader: React state `wallet`
  connecting,             \* StarryButton: React state `connecting`
  mounted,                \* StickyHeader: its mount effect has run
  clickCall,              \* the call the button's click handler awaits, 0 if none
  nClicks,                \* clicks so far
  pendingTransactions,    \* StickyHeader: React state `pendingTransactions`
  fetches,                \* fetchPendingTransactions calls awaiting the wallet's answer
  effectWallet,           \* the `wallet` the effect on [wallet] last ran for
  action,                 \* the latest send-transfer / choice action and its notifications
  nActions                \* clicks on the page's other buttons so far

adapterState == <<_wallet, _onAcceptCallback, _onRejectCallback, _onDisconnectCallback>>
callbackState == <<_onAcceptCallback, _onRejectCallback, _onDisconnectCallback>>
uiState == <<wallet, connecting, mounted, clickCall, nClicks>>
pageState == <<pendingTransactions, fetches, effectWallet, action, nActions>>
vars == <<nightly, _wallet, _onAcceptCallback, _onRejectCallback,
          _onDisconnectCallback, lastInit, calls, req, wallet, connecting, mounted,
          clickCall, nClicks, pendingTransactions, fetches, effectWallet, action,
          nActions>>

\* ---------------------------------------------------------------- records
Pending(c) == c.pc \notin {"done", "past"}
PendingCalls == {i \in DOMAIN calls : Pending(calls[i])}

\* A call of connect, disconnect or eagerConnect and what it has done so far.
NewCall(op, by) ==
  [ op       |-> op,         \* "connect", "disconnect", "eagerConnect"
    by       |-> by,         \* "api", "mount", "click"
    pc       |-> "start",    \* "await_connect", "await_wallet", "await_disconnect",
                             \* "done", "past"
    outcome  |-> "pending",  \* "resolved", "rejected"
    value    |-> NULL,       \* what the promise resolved to
    accept   |-> 0,          \* invocations of the registered onAccept
    acceptArg |-> NULL,      \* what onAccept was given
    reject   |-> 0,          \* invocations of the registered onReject
    invoked  |-> {},         \* the callbacks the call has invoked
    disc     |-> 0,          \* invocations of the registered onDisconnect
    prov     |-> 0,          \* calls of the provider's connect / disconnect
    local    |-> NULL,       \* the local `wallet` of connect (line 159)
    cause    |-> "none",     \* which failure the call met
    before   |-> _wallet,    \* _wallet when the call was made
    inFlight |-> PendingCalls, \* the calls still pending when the call was made
    isConnected |-> "none" ] \* eagerConnect: the provider's isConnected answer

\* Bookkeeping: the full record of a completed call is kept until another
\* call takes a step; from then on only what a later call can be compared
\* with is kept: the operation, who called it, what it resolved to, the
\* provider calls it made and the calls it overlapped with.
Past(c) ==
  [ NewCall(c.op, c.by) EXCEPT
      !.pc = "past", !.outcome = c.outcome, !.value = c.value,
      !.prov = c.prov, !.before = NULL,
      !.inFlight = c.inFlight ]

\* the calls after call i has taken a step
Archive(cs, i) ==
  [ j \in DOMAIN cs |-> IF j # i /\ cs[j].pc = "done" THEN Past(cs[j]) ELSE cs[j] ]

\* the calls after a new call was made
Issue(c) == Archive(Append(calls, c), Len(calls) + 1)

\* the calls after call i went on as f says
Step(i, c) == Archive([calls EXCEPT ![i] = c], i)

NoAnswer == [kind |-> "none"]

NoRequest ==
  [ op |-> "none", arg |-> NULL, pc |-> "idle", before |-> NULL,
    target |-> NULL, method |-> "none", fwdArg |-> NULL, fwd |-> 0,
    answer |-> NoAnswer, outcome |-> "none", value |-> NULL, responses |-> <<>> ]

\* ------------------------------------------------------------------- Init
Init ==
  /\ nightly \in {NULL, PROVIDER}
  /\ _wallet = NULL
  /\ _onAcceptCallback = NULL
  /\ _onRejectCallback = NULL
  /\ _onDisconnectCallback = NULL
  /\ lastInit = <<NULL, NULL, NULL>>
  /\ calls = <<>>
  /\ req = NoRequest
  /\ wallet = NULL
  /\ connecting = FALSE
  /\ mounted = FALSE
  /\ clickCall = 0
  /\ nClicks = 0
  /\ pendingTransactions = NoTransactions
  /\ fetches = 0
  /\ effectWallet = NULL
  /\ action = NoAction
  /\ nActions = 0

\* ------------------------------------------------------------ environment
\* the extension injects window.nightly
Inject ==
  /\ nightly = NULL
  /\ nightly' = PROVIDER
  /\ UNCHANGED <<pageState, adapterState, lastInit, calls, req, uiState>>

\* window.nightly goes away
Remove ==
  /\ nightly = PROVIDER
  /\ nightly' = NULL
  /\ UNCHANGED <<pageState, adapterState, lastInit, calls, req, uiState>>

\* ---------------------------------------------------------------- adapter
isNightlyAvailable == nightly # NULL

getWallet == _wallet

\* init keeping the registered callback where the option is omitted
initKeepsOmitted(onAccept, onReject, onDisconnect) ==
  /\ _onAcceptCallback' = (IF onAccept # NULL THEN onAccept ELSE _onAcceptCallback)
  /\ _onRejectCallback' = (IF onReject # NULL THEN onReject ELSE _onRejectCallback)
  /\ _onDisconnectCallback' = (IF onDisconnect # NULL THEN onDisconnect
                                                      ELSE _onDisconnectCallback)
  /\ lastInit' = <<onAccept, onReject, onDisconnect>>

\* init(options): an omitted option is NULL (`options.onAccept || null`);
\* lastInit notes the options given
init(onAccept, onReject, onDisconnect) ==
  /\ _onAcceptCallback' = onAccept
  /\ _onRejectCallback' = onReject
  /\ _onDisconnectCallback' = onDisconnect
  /\ lastInit' = <<onAccept, onReject, onDisconnect>>

\* whether a registered callback throws when invoked
Throws(cb) == cb = "onAcceptThrows"

\* `if (_onRejectCallback) _onRejectCallback(); return null;`
\* (lines 151-154 and 167-170)
RejectAndReturnNull(c, cause) ==
  [c EXCEPT !.reject = IF _onRejectCallback # NULL THEN @ + 1 ELSE @,
            !.invoked = IF _onRejectCallback # NULL THEN @ \cup {_onRejectCallback} ELSE @,
            !.pc = "done", !.outcome = "resolved", !.value = NULL,
            !.cause = cause]

\* connect() from its call to its first await (lines 147-158)
connectStart(c) ==
  IF ~isNightlyAvailable
  THEN RejectAndReturnNull(c, "absent")
  ELSE [c EXCEPT !.pc = "await_connect", !.prov = @ + 1]

\* connect() once the provider's connect() has resolved: line 159 reads
\* window.nightly!.canton! again and awaits the value
connectResolved(c) ==
  IF nightly = NULL
  THEN RejectAndReturnNull(c, "type_error")
  ELSE [c EXCEPT !.pc = "await_wallet", !.local = nightly]

\* connectRejected letting the provider's rejection through to the caller
connectRejectedRethrows(c) ==
  [c EXCEPT !.pc = "done", !.outcome = "rejected", !.cause = "provider_rejected"]

\* connect() once the provider's connect() has rejected (lines 165-171)
connectRejected(c) == RejectAndReturnNull(c, "provider_rejected")

\* connect() after `_wallet = wallet` (lines 161-170): the onAccept call is
\* inside the try block, so what it throws is caught like a failed connect
connectAccept(c) ==
  IF _onAcceptCallback = NULL
  THEN [c EXCEPT !.pc = "done", !.outcome = "resolved", !.value = c.local]
  ELSE LET d == [c EXCEPT !.accept = @ + 1, !.acceptArg = c.local,
                          !.invoked = @ \cup {_onAcceptCallback}] IN
       IF Throws(_onAcceptCallback)
       THEN RejectAndReturnNull(d, "accept_threw")
       ELSE [d EXCEPT !.pc = "done", !.outcome = "resolved", !.value = c.local]

\* the wallet state of the StickyHeader after the registered onAccept ran
\* (StickyHeader.tsx:90-95)
AfterOnAccept(w) ==
  IF _onAcceptCallback = UiOnAccept THEN w ELSE wallet

\* the wallet state of the StickyHeader after the registered onDisconnect ran
\* (StickyHeader.tsx:100-104)
AfterOnDisconnect ==
  IF _onDisconnectCallback = UiOnDisconnect THEN NULL ELSE wallet

\* the pending-transactions list of the StickyHeader after the registered
\* onDisconnect ran (StickyHeader.tsx:103)
PendingAfterOnDisconnect ==
  IF _onDisconnectCallback = UiOnDisconnect THEN NoTransactions ELSE pendingTransactions

\* canEagerConnect without the isConnected test
canEagerConnectIfInjected(isConnected) == isNightlyAvailable

\* canEagerConnect() (lines 206-217)
canEagerConnect(isConnected) ==
  IF ~isNightlyAvailable THEN FALSE
  ELSE IF isConnected # "missing" THEN isConnected = "true"
  ELSE FALSE

\* eagerConnect() from its call to its first await (lines 222-228)
eagerConnectStart(c, isConnected) ==
  LET d == [c EXCEPT !.isConnected = isConnected] IN
  IF ~canEagerConnect(isConnected)
  THEN [d EXCEPT !.pc = "done", !.outcome = "resolved", !.value = NULL]
  ELSE connectStart(d)

\* disconnect() from its call to its first await or return (lines 178-184)
disconnectStart(c) ==
  IF ~isNightlyAvailable
  THEN [c EXCEPT !.pc = "done", !.outcome = "resolved"]
  ELSE [c EXCEPT !.pc = "await_disconnect", !.prov = @ + 1]

\* disconnectStartWallet without the reset of line 179
disconnectStartWalletKept == _wallet

\* _wallet after disconnect() has been called
disconnectStartWallet ==
  IF ~isNightlyAvailable THEN NULL ELSE _wallet

\* disconnect() once the provider's disconnect() has settled: a rejection is
\* caught and logged, and the function goes on (lines 183-193)
disconnectSettled(c, cause) ==
  [c EXCEPT !.disc = IF _onDisconnectCallback # NULL THEN @ + 1 ELSE @,
            !.invoked = IF _onDisconnectCallback # NULL
                        THEN @ \cup {_onDisconnectCallback} ELSE @,
            !.pc = "done", !.outcome = "resolved", !.cause = cause]

\* _wallet after the provider's disconnect() has settled (line 189)
disconnectSettledWallet == NULL

\* disconnectCallbacks resetting the callbacks with the wallet
disconnectCallbacksCleared == <<NULL, NULL, NULL>>

\* the registered callbacks after disconnect(): it assigns none of them
disconnectCallbacks == callbackState

\* ---------------------------------------------- actions: connection calls
Connect(by) ==
  /\ calls' = Issue(connectStart(NewCall("connect", by)))
  /\ UNCHANGED <<pageState, lastInit, nightly, adapterState, req, wallet>>

EagerConnect(by, isConnected) ==
  /\ calls' = Issue(eagerConnectStart(NewCall("eagerConnect", by), isConnected))
  /\ UNCHANGED <<pageState, lastInit, nightly, adapterState, req, wallet>>

Disconnect(by) ==
  /\ calls' = Issue(disconnectStart(NewCall("disconnect", by)))
  /\ _wallet' = disconnectStartWallet
  /\ _onAcceptCallback' = disconnectCallbacks[1]
  /\ _onRejectCallback' = disconnectCallbacks[2]
  /\ _onDisconnectCallback' = disconnectCallbacks[3]
  /\ UNCHANGED <<pageState, lastInit, nightly, req, wallet>>

\* the provider resolves the promise of its connect()
ProviderConnectResolves(i) ==
  /\ calls[i].pc = "await_connect"
  /\ calls' = Step(i, connectResolved(calls[i]))
  /\ UNCHANGED <<pageState, lastInit, nightly, adapterState, req, uiState>>

\* the provider rejects the promise of its connect()
ProviderConnectRejects(i) ==
  /\ calls[i].pc = "await_connect"
  /\ calls' = Step(i, connectRejected(calls[i]))
  /\ UNCHANGED <<pageState, lastInit, nightly, adapterState, req, uiState>>

\* connect() resumes after `await window.nightly!.canton!` (lines 160-170)
ConnectAssign(i) ==
  /\ calls[i].pc = "await_wallet"
  /\ _wallet' = calls[i].local
  /\ calls' = Step(i, connectAccept(calls[i]))
  /\ wallet' = IF _onAcceptCallback # NULL THEN AfterOnAccept(calls[i].local) ELSE wallet
  /\ UNCHANGED <<pageState, lastInit, nightly, callbackState, req, connecting, mounted, clickCall, nClicks>>

\* disconnect() resumes after `await window.nightly!.canton!.disconnect()`
DisconnectResume(i, cause) ==
  /\ calls[i].pc = "await_disconnect"
  /\ _wallet' = disconnectSettledWallet
  /\ _onAcceptCallback' = disconnectCallbacks[1]
  /\ _onRejectCallback' = disconnectCallbacks[2]
  /\ _onDisconnectCallback' = disconnectCallbacks[3]
  /\ calls' = Step(i, disconnectSettled(calls[i], cause))
  /\ wallet' = IF _onDisconnectCallback # NULL THEN AfterOnDisconnect ELSE wallet
  /\ pendingTransactions' = IF _onDisconnectCallback # NULL THEN PendingAfterOnDisconnect
                                                           ELSE pendingTransactions
  /\ UNCHANGED <<fetches, effectWallet, action, nActions, lastInit, nightly, req,
                 connecting, mounted, clickCall, nClicks>>

\* the provider resolves the promise of its disconnect()
ProviderDisconnectResolves(i) == DisconnectResume(i, "none")

\* the provider rejects the promise of its disconnect()
ProviderDisconnectRejects(i) == DisconnectResume(i, "provider_rejected")

\* ------------------------------------------------- pass-through operations
\* the method of the wallet each adapter operation calls
WalletMethod(op) ==
  CASE op = "signMessage" -> "signMessage"                                        \* line 245
    [] op = "createTransferCommand" -> "createTransferCommand"                    \* line 258
    [] op = "createTransactionChoiceCommand" -> "createTransactionChoiceCommand"  \* line 271
    [] op = "submitTransactionCommand" -> "submitTransactionCommand"              \* line 289
    [] op = "getHoldingTransactions" -> "getHoldingTransactions"                  \* line 303
    [] op = "getPendingTransactions" -> "getPendingTransactions"                  \* line 314
    [] op = "getHoldingUtxos" -> "getHoldingUtxos"                                \* line 325
    [] op = "getActiveContractsByInterfaceId" -> "getActiveContractsByInterfaceId" \* line 338
    [] op = "getActiveContractsByTemplateId" -> "getActiveContractsByTemplateId"  \* line 351

\* Forward, calling the object now at window.nightly.canton instead of _wallet
ForwardToInjected(r) ==
  [r EXCEPT !.pc = "await", !.target = nightly, !.method = WalletMethod(r.op),
            !.fwdArg = r.arg, !.fwd = @ + 1]

\* `_wallet.<method>(<arguments>)`: the request as the wallet receives it
Forward(r) ==
  [r EXCEPT !.pc = "await", !.target = _wallet, !.method = WalletMethod(r.op),
            !.fwdArg = r.arg, !.fwd = @ + 1]

\* promiseOp returning null where the code throws
promiseOpReturnsNull(op, arg) ==
  LET r == [NoRequest EXCEPT !.op = op, !.arg = arg, !.before = _wallet] IN
  IF _wallet = NULL
  THEN [r EXCEPT !.pc = "done", !.outcome = "resolved", !.value = NULL]
  ELSE Forward(r)

\* an async pass-through operation, from its call to its return
\* (createTransferCommand .. getActiveContractsByTemplateId)
promiseOp(op, arg) ==
  LET r == [NoRequest EXCEPT !.op = op, !.arg = arg, !.before = _wallet] IN
  IF _wallet = NULL
  THEN [r EXCEPT !.pc = "done", !.outcome = "rejected", !.value = NoWalletConnected]
  ELSE Forward(r)

\* the promise of an async pass-through operation follows the wallet's promise
promiseSettled(r, answer) ==
  [r EXCEPT !.pc = "done", !.answer = answer,
            !.outcome = answer.kind, !.value = answer.value]

\* callbackOp throwing, as the async operations do, where the code calls onResponse
callbackOpThrows(op, arg) ==
  LET r == [NoRequest EXCEPT !.op = op, !.arg = arg, !.before = _wallet,
                             !.outcome = "returned"] IN
  IF _wallet = NULL
  THEN [r EXCEPT !.pc = "done", !.outcome = "threw", !.value = NoWalletConnected]
  ELSE Forward(r)

\* signMessage / submitTransactionCommand, from the call to the return
callbackOp(op, arg) ==
  LET r == [NoRequest EXCEPT !.op = op, !.arg = arg, !.before = _wallet,
                             !.outcome = "returned"] IN
  IF _wallet = NULL
  THEN [r EXCEPT !.pc = "done",
                 !.responses = <<[type |-> SIGN_REQUEST_ERROR,
                                  data |-> NoWalletConnected]>>]
  ELSE Forward(r)

\* the wallet invokes the onResponse it was handed, which is the caller's
walletResponded(r, resp) ==
  [r EXCEPT !.pc = "done", !.answer = resp, !.responses = Append(@, resp)]

CallPromiseOp(op, arg) ==
  /\ req.pc \in {"idle", "done"}
  /\ req' = promiseOp(op, arg)
  /\ UNCHANGED <<pageState, lastInit, nightly, adapterState, calls, uiState>>

WalletSettles(answer) ==
  /\ req.pc = "await"
  /\ req.op \in PromiseOps
  /\ req' = promiseSettled(req, answer)
  /\ UNCHANGED <<pageState, lastInit, nightly, adapterState, calls, uiState>>

CallCallbackOp(op, arg) ==
  /\ req.pc \in {"idle", "done"}
  /\ req' = callbackOp(op, arg)
  /\ UNCHANGED <<pageState, lastInit, nightly, adapterState, calls, uiState>>

WalletResponds(resp) ==
  /\ req.pc = "await"
  /\ req.op \in CallbackOps
  /\ req' = walletResponded(req, resp)
  /\ UNCHANGED <<pageState, lastInit, nightly, adapterState, calls, uiState>>

\* ------------------------------------------------- the API used by any caller
ApiInit ==
  /\ \E a \in AcceptCallbacks \cup {NULL}, r \in RejectCallbacks \cup {NULL},
        d \in DisconnectCallbacks \cup {NULL} : init(a, r, d)
  /\ UNCHANGED <<pageState, nightly, _wallet, calls, req, uiState>>

ApiConnect ==
  /\ Len(calls) < MaxCalls
  /\ Connect("api")
  /\ UNCHANGED <<connecting, mounted, clickCall, nClicks>>

ApiEagerConnect ==
  /\ Len(calls) < MaxCalls
  /\ \E a \in IsConnectedAnswers : EagerConnect("api", a)
  /\ UNCHANGED <<connecting, mounted, clickCall, nClicks>>

ApiDisconnect ==
  /\ Len(calls) < MaxCalls
  /\ Disconnect("api")
  /\ UNCHANGED <<connecting, mounted, clickCall, nClicks>>

ApiPromiseOp == \E op \in PromiseOps : \E arg \in OpArgs(op) : CallPromiseOp(op, arg)

ApiCallbackOp == \E op \in CallbackOps : \E arg \in OpArgs(op) : CallCallbackOp(op, arg)

\* the provider settles a promise, or a connect resumes
SettleCall ==
  \/ \E i \in DOMAIN calls : ProviderConnectResolves(i)
  \/ \E i \in DOMAIN calls : ProviderConnectRejects(i)
  \/ \E i \in DOMAIN calls : ConnectAssign(i)
  \/ \E i \in DOMAIN calls : ProviderDisconnectResolves(i)
  \/ \E i \in DOMAIN calls : ProviderDisconnectRejects(i)

\* the wallet answers the request forwarded to it
SettleRequest ==
  \/ \E answer \in WalletResults : WalletSettles(answer)
  \/ \E resp \in WalletResponses : WalletResponds(resp)

\* any caller uses the connection API
Next ==
  \/ Inject
  \/ Remove
  \/ ApiInit
  \/ ApiConnect
  \/ ApiEagerConnect
  \/ ApiDisconnect
  \/ SettleCall

Spec == Init /\ [][Next]_vars

\* any caller uses the pass-through operations, connected or not
NextOps ==
  \/ Inject
  \/ Remove
  \/ ApiConnect
  \/ ApiDisconnect
  \/ SettleCall
  \/ ApiPromiseOp
  \/ ApiCallbackOp
  \/ SettleRequest

SpecOps == Init /\ [][NextOps]_vars

\* ------------------------------------------------------------ StickyHeader
\* the `connected` prop of the StarryButton (StickyHeader.tsx:229)
connected == wallet # NULL

\* The mount effect (StickyHeader.tsx:84-118): adapter.init with the
\* component's callbacks, then eagerConnect if canEagerConnect().  With these
\* callbacks, none of which throws, eagerConnect() does not reject.
Mount ==
  /\ ~mounted
  /\ mounted' = TRUE
  /\ init(UiOnAccept, UiOnReject, UiOnDisconnect)
  /\ \E a \in IsConnectedAnswers :
       calls' = IF canEagerConnect(a)
                THEN Issue(eagerConnectStart(NewCall("eagerConnect", "mount"), a))
                ELSE calls
  /\ UNCHANGED <<pageState, nightly, _wallet, req, wallet, connecting, clickCall, nClicks>>

\* ClickProceeds without the connecting test
ClickProceedsAlways == TRUE

\* whether the button's click handler goes past `if (connecting) return`
\* (StickyHeader.tsx:482)
ClickProceeds == ~connecting

\* A click on the connect button (StickyHeader.tsx:481-492), up to the await:
\* onDisconnect (238-244) if connected, else onConnect (230-237).  The
\* adapter's promises do not reject with the component's callbacks, so the
\* catch blocks of both are not entered.
Click ==
  /\ mounted
  /\ nClicks < MaxClicks
  /\ nClicks' = nClicks + 1
  /\ UNCHANGED mounted
  /\ IF ~ClickProceeds
     THEN UNCHANGED <<pageState, lastInit, nightly, adapterState, calls, req, wallet, connecting, clickCall>>
     ELSE /\ connecting' = TRUE
          /\ clickCall' = Len(calls) + 1
          /\ IF connected THEN Disconnect("click") ELSE Connect("click")

\* the click handler resumes when the adapter's promise has settled and
\* clears the flag (StickyHeader.tsx:486, 490)
ClickResume ==
  /\ clickCall # 0
  /\ ~Pending(calls[clickCall])
  /\ connecting' = FALSE
  /\ clickCall' = 0
  /\ UNCHANGED <<pageState, lastInit, nightly, adapterState, calls, req, wallet, mounted, nClicks>>

\* fetchPendingTransactions() up to its await (StickyHeader.tsx:68-70): the
\* calls awaiting the wallet's answer after this one; the rejection of
\* adapter.getPendingTransactions() is caught and logged
fetchStarted ==
  IF promiseOp("getPendingTransactions", NULL).pc = "await" THEN fetches + 1 ELSE fetches

\* fetchPendingTransactions() after its await (StickyHeader.tsx:70-77): the
\* list after `if (result) setPendingTransactions(result)`
fetchSettled(answer) ==
  LET r == promiseSettled(Forward([NoRequest EXCEPT !.op = "getPendingTransactions"]),
                          answer) IN
  IF r.outcome = "resolved" /\ r.value # NULL THEN r.value ELSE pendingTransactions

\* the effect on [wallet] (StickyHeader.tsx:120-125) runs after a render in
\* which `wallet` has changed
WalletEffect ==
  /\ mounted
  /\ effectWallet # wallet
  /\ effectWallet' = wallet
  /\ fetches' = IF wallet # NULL THEN fetchStarted ELSE fetches
  /\ UNCHANGED <<pendingTransactions, action, nActions, lastInit, nightly,
                 adapterState, calls, req, uiState>>

\* the wallet settles the promise of a getPendingTransactions request
FetchSettles(answer) ==
  /\ fetches > 0
  /\ fetches' = fetches - 1
  /\ pendingTransactions' = fetchSettled(answer)
  /\ UNCHANGED <<effectWallet, action, nActions, lastInit, nightly, adapterState,
                 calls, req, uiState>>

\* the wallet answers a fetch of the pending transactions
SettleFetch == \E answer \in FetchResults : FetchSettles(answer)

\* the page: the component mounts, the user clicks, the provider answers
NextUI ==
  \/ Inject
  \/ Remove
  \/ Mount
  \/ Click
  \/ ClickResume
  \/ SettleCall
  \/ WalletEffect
  \/ SettleFetch

SpecUI == Init /\ [][NextUI]_vars

\* ------------------------------------- StickyHeader: transfers and choices
\* the adapter operation that creates the command of an action
\* (StickyHeader.tsx:133, 181)
CreateOp(kind) ==
  IF kind = "transfer" THEN "createTransferCommand"
                       ELSE "createTransactionChoiceCommand"

\* toast.promise (StickyHeader.tsx:359, 378, 426): the notification for how
\* the promise it was given settled
ToastPromise(outcome) ==
  IF outcome = "resolved" THEN "promise_success" ELSE "promise_error"

\* the promise of the handler settles, the handler having shown `toasts`
Settled(a, outcome, toasts) ==
  [a EXCEPT !.pc = "done", !.outcome = outcome,
            !.toasts = toasts \cup {ToastPromise(outcome)}]

\* the catch block of the handlers (StickyHeader.tsx:168-171, 217-220):
\* toast.error, then the handler returns undefined
Caught(a) == Settled(a, "resolved", {"error"})

\* the onResponse the handlers give submitTransactionCommand
\* (StickyHeader.tsx:148-163, 197-212)
Responded(a, resp) ==
  IF resp.type = SIGN_REQUEST_APPROVED
  THEN Settled([a EXCEPT !.approved = TRUE], "resolved", {"success"})
  ELSE Settled(a, "rejected", {})

\* a handler from `try` to its first await (StickyHeader.tsx:132-141,
\* 180-190): a rejection of the adapter's promise is caught
StartAction(kind) ==
  LET r == promiseOp(CreateOp(kind), "arg1")
      a == [NoAction EXCEPT !.kind = kind] IN
  /\ req' = r
  /\ action' = IF r.pc = "done" THEN Caught(a) ELSE [a EXCEPT !.pc = "create"]

\* a click on "Send CC" (StickyHeader.tsx:424-431, handleSendTransfer
\* 174-190), the amount and address fields filled or not; the form is
\* rendered while `wallet` is set.  One action is followed at a time.
HandleSendTransfer(filled) ==
  /\ mounted /\ wallet # NULL
  /\ action.pc \in {"idle", "done"}
  /\ nActions < MaxActions
  /\ nActions' = nActions + 1
  /\ IF filled
     THEN StartAction("transfer")
     ELSE /\ action' = Settled([NoAction EXCEPT !.kind = "transfer"], "resolved", {"error"})
          /\ req' = req
  /\ UNCHANGED <<pendingTransactions, fetches, effectWallet, lastInit, nightly,
                 adapterState, calls, uiState>>

\* a click on "Accept" or "Reject" of a listed transaction
\* (StickyHeader.tsx:357-392, handleTransactionChoice 127-141)
HandleTransactionChoice ==
  /\ mounted /\ wallet # NULL
  /\ pendingTransactions = Transactions
  /\ action.pc \in {"idle", "done"}
  /\ nActions < MaxActions
  /\ nActions' = nActions + 1
  /\ StartAction("choice")
  /\ UNCHANGED <<pendingTransactions, fetches, effectWallet, lastInit, nightly,
                 adapterState, calls, uiState>>

\* a click on "Refresh Pending" (StickyHeader.tsx:331-333)
RefreshPending ==
  /\ mounted /\ wallet # NULL
  /\ nActions < MaxActions
  /\ nActions' = nActions + 1
  /\ fetches' = fetchStarted
  /\ UNCHANGED <<pendingTransactions, effectWallet, action, lastInit, nightly,
                 adapterState, calls, req, uiState>>

\* the wallet settles the promise of the create-command request and the
\* handler goes on (StickyHeader.tsx:141-164, 190-213): without a command
\* it throws into its catch block, with one it returns the promise that
\* submitTransactionCommand's response settles
CommandSettles(answer) ==
  /\ action.pc = "create"
  /\ req.pc = "await"
  /\ LET r == promiseSettled(req, answer) IN
     IF r.outcome = "rejected" \/ r.value = NULL
     THEN /\ req' = r
          /\ action' = Caught(action)
     ELSE LET s == callbackOp("submitTransactionCommand", r.value) IN
          /\ req' = s
          /\ action' = IF s.pc = "done" THEN Responded(action, s.responses[1])
                                        ELSE [action EXCEPT !.pc = "submit"]
  /\ UNCHANGED <<pendingTransactions, fetches, effectWallet, nActions, lastInit,
                 nightly, adapterState, calls, uiState>>

\* the wallet answers the submitted command (StickyHeader.tsx:148-163,
\* 197-212); an approved choice fetches the pending transactions again
SubmitResponds(resp) ==
  /\ action.pc = "submit"
  /\ req.pc = "await"
  /\ req' = walletResponded(req, resp)
  /\ action' = Responded(action, resp)
  /\ fetches' = IF resp.type = SIGN_REQUEST_APPROVED /\ action.kind = "choice"
                THEN fetchStarted ELSE fetches
  /\ UNCHANGED <<pendingTransactions, effectWallet, nActions, lastInit, nightly,
                 adapterState, calls, uiState>>

\* the wallet answers a request of a transfer or choice action
SettleAction ==
  \/ \E answer \in WalletResults : CommandSettles(answer)
  \/ \E resp \in WalletResponses : SubmitResponds(resp)

\* the page with its transfer form and its list of pending transactions
NextPage ==
  \/ Inject
  \/ Remove
  \/ Mount
  \/ Click
  \/ ClickResume
  \/ SettleCall
  \/ WalletEffect
  \/ SettleFetch
  \/ \E filled \in BOOLEAN : HandleSendTransfer(filled)
  \/ HandleTransactionChoice
  \/ RefreshPending
  \/ SettleAction

SpecPage == Init /\ [][NextPage]_vars

\* ================================================================= claims

\* a pass-through operation is called in this step
RequestMade == req.pc \in {"idle", "done"} /\ req' # req

\* C1: a promise-returning operation called while _wallet is null rejects
\* with "No wallet connected", calls no method of the wallet, and leaves
\* _wallet and the three callbacks as they were.
C1_NoWalletRejects ==
  [][ (RequestMade /\ req'.op \in PromiseOps /\ _wallet = NULL)
        => /\ req'.pc = "done"
           /\ req'.outcome = "rejected"
           /\ req'.value = NoWalletConnected
           /\ req'.fwd = 0
           /\ req'.target = NULL
           /\ adapterState' = adapterState ]_vars

\* a query was rejected for want of a wallet after a disconnect went through
C1_Witness ==
  /\ req.op = "getPendingTransactions"
  /\ req.before = NULL
  /\ req.outcome = "rejected"
  /\ \E i \in DOMAIN calls : calls[i].op = "disconnect" /\ calls[i].prov = 1
                             /\ ~Pending(calls[i])

\* C2: signMessage and submitTransactionCommand called while _wallet is null
\* invoke onResponse exactly once, before returning, with SIGN_REQUEST_ERROR
\* and "No wallet connected"; the wallet is not called and nothing is thrown.
C2_NoWalletErrorResponse ==
  (req.op \in CallbackOps /\ req.before = NULL)
    => /\ req.pc = "done"
       /\ req.outcome = "returned"
       /\ req.responses = <<[type |-> SIGN_REQUEST_ERROR, data |-> NoWalletConnected]>>
       /\ req.fwd = 0
       /\ req.target = NULL

\* submitTransactionCommand answered by the adapter itself, the provider injected
C2_Witness ==
  /\ req.op = "submitTransactionCommand"
  /\ req.before = NULL
  /\ Len(req.responses) = 1
  /\ nightly = PROVIDER

\* C3: with _wallet non-null every pass-through operation makes exactly one
\* call, of the same-named method of the stored wallet, with the caller's
\* argument; the caller gets exactly what the wallet answers, and no error
\* response of the adapter's own.
C3_Forwarded ==
  (req.op # "none" /\ req.before # NULL)
    => /\ req.fwd = 1
       /\ req.target = req.before
       /\ req.method = req.op
       /\ req.fwdArg = req.arg
       /\ req.op \in PromiseOps =>
            IF req.pc = "done"
            THEN req.answer \in WalletResults
                 /\ req.outcome = req.answer.kind /\ req.value = req.answer.value
            ELSE req.outcome = "none"
       /\ req.op \in CallbackOps =>
            /\ req.outcome = "returned"
            /\ IF req.pc = "done"
               THEN req.answer \in WalletResponses /\ req.responses = <<req.answer>>
               ELSE req.responses = <<>>

\* a command was created by the stored wallet although the provider is no
\* longer injected, and the wallet's rejection reached the caller
C3_Witness ==
  /\ req.op = "createTransferCommand"
  /\ req.before = PROVIDER
  /\ nightly = NULL
  /\ req.pc = "done"
  /\ req.outcome = "rejected"
  /\ req.arg = "arg2"

\* call i completes in this step
Completes(i) ==
  /\ i \in DOMAIN calls'
  /\ calls'[i].pc = "done"
  /\ (i \in DOMAIN calls => calls[i].pc # "done")

\* a connect / disconnect / eagerConnect call is made in this step
CallMade == Len(calls') = Len(calls) + 1

\* C4: when a disconnect call completes getWallet() returns null, whether
\* the provider was absent, or its disconnect() resolved, or rejected.
C4_DisconnectLeavesNull ==
  [][ \A i \in DOMAIN calls' :
        (Completes(i) /\ calls'[i].op = "disconnect") => getWallet' = NULL ]_vars

\* a disconnect made while connected has completed although the provider's
\* disconnect() rejected
C4_Witness ==
  \E i \in DOMAIN calls :
    /\ calls[i].op = "disconnect"
    /\ calls[i].pc = "done"
    /\ calls[i].before = PROVIDER
    /\ calls[i].cause = "provider_rejected"

\* C5: a connect that fails because the provider is absent or because its
\* connect() rejects resolves to null, invokes the registered onReject once
\* and onAccept not at all, and leaves _wallet as it was.
C5_FailedConnect ==
  [][ \A i \in DOMAIN calls' :
        ( /\ Completes(i)
          /\ calls'[i].op = "connect"
          /\ calls'[i].cause \in {"absent", "provider_rejected"} )
        => /\ calls'[i].outcome = "resolved"
           /\ calls'[i].value = NULL
           /\ calls'[i].reject = (IF _onRejectCallback # NULL THEN 1 ELSE 0)
           /\ calls'[i].accept = 0
           /\ _wallet' = _wallet ]_vars

\* the provider rejected a connect made while a wallet was connected: onReject
\* ran once and the wallet is still there
C5_Witness ==
  \E i \in DOMAIN calls :
    /\ calls[i].op = "connect"
    /\ calls[i].pc = "done"
    /\ calls[i].cause = "provider_rejected"
    /\ calls[i].reject = 1
    /\ calls[i].before = PROVIDER
    /\ _wallet = PROVIDER

\* C6: a connect with the provider present whose connect() resolves sets
\* _wallet to the provider object, invokes the registered onAccept once with
\* it and resolves to it; from then on getWallet() returns it until a
\* disconnect completes.
C6_SuccessfulConnect ==
  [][ /\ \A i \in DOMAIN calls' :
           ( /\ Completes(i)
             /\ calls'[i].op = "connect"
             /\ calls'[i].local # NULL )
           => /\ _wallet' = PROVIDER
              /\ calls'[i].accept = (IF _onAcceptCallback # NULL THEN 1 ELSE 0)
              /\ (_onAcceptCallback # NULL => calls'[i].acceptArg = PROVIDER)
              /\ calls'[i].outcome = "resolved"
              /\ calls'[i].value = PROVIDER
      /\ (getWallet = PROVIDER /\ getWallet' # PROVIDER)
           => \E i \in DOMAIN calls' : Completes(i) /\ calls'[i].op = "disconnect"
    ]_vars

\* C7: eagerConnect calls the provider's connect() only if the provider is
\* present, has an isConnected function and isConnected() is true; otherwise
\* it resolves to null, calls neither the provider's connect() nor a
\* callback, and leaves the adapter's state alone.
C7_EagerConnectOnlyIfConnected ==
  [][ (CallMade /\ calls'[Len(calls')].op = "eagerConnect")
        => LET c == calls'[Len(calls')]
               restorable == /\ nightly = PROVIDER
                             /\ c.isConnected # "missing"
                             /\ c.isConnected = "true"
           IN  /\ c.prov = (IF restorable THEN 1 ELSE 0)
               /\ restorable => c.pc = "await_connect"
               /\ ~restorable =>
                    /\ c.pc = "done"
                    /\ c.outcome = "resolved"
                    /\ c.value = NULL
                    /\ c.accept = 0 /\ c.reject = 0 /\ c.disc = 0
                    /\ adapterState' = adapterState ]_vars

\* an eagerConnect found the provider not connected: nothing was called,
\* although callbacks are registered and a wallet is connected
C7_Witness ==
  \E i \in DOMAIN calls :
    /\ calls[i].op = "eagerConnect"
    /\ calls[i].pc = "done"
    /\ calls[i].isConnected = "false"
    /\ calls[i].prov = 0
    /\ nightly = PROVIDER
    /\ _onRejectCallback # NULL
    /\ _wallet = PROVIDER

\* C8 as stated: when a disconnect call completes, _wallet is null and the
\* three callbacks are cleared.
C8_DisconnectClearsCallbacks ==
  [][ \A i \in DOMAIN calls' :
        (Completes(i) /\ calls'[i].op = "disconnect")
        => /\ _wallet' = NULL
           /\ _onAcceptCallback' = NULL
           /\ _onRejectCallback' = NULL
           /\ _onDisconnectCallback' = NULL ]_vars

\* C8, amended: when a disconnect call completes, _wallet is null and the
\* three callbacks are the ones registered before it; the registered
\* onDisconnect is invoked only where the provider was present.
C8_DisconnectKeepsCallbacks ==
  [][ \A i \in DOMAIN calls' :
        (Completes(i) /\ calls'[i].op = "disconnect")
        => /\ _wallet' = NULL
           /\ callbackState' = callbackState
           /\ calls'[i].disc =
                (IF calls'[i].prov = 1 /\ _onDisconnectCallback # NULL THEN 1 ELSE 0) ]_vars

\* after a disconnect, a connect made with no init in sight invoked the
\* onAccept that is still registered
C8_Witness ==
  \E i, j \in DOMAIN calls :
    /\ i < j
    /\ calls[i].op = "disconnect" /\ calls[i].pc = "past" /\ calls[i].prov = 1
    /\ calls[j].op = "connect" /\ calls[j].pc = "done" /\ calls[j].inFlight = {}
    /\ calls[j].accept = 1
    /\ _onAcceptCallback = "onAccept"

\* C9: with a connect and a disconnect in flight together, the one issued
\* later decides: once both have completed _wallet is null if the disconnect
\* was issued last, the provider object if the successful connect was.
C9_LastIssuedWins ==
  ( /\ Len(calls) = 2
    /\ ~Pending(calls[1]) /\ ~Pending(calls[2])
    /\ calls[2].inFlight = {1}
    /\ calls[1].prov = 1 /\ calls[2].prov = 1
    /\ \E c, d \in {1, 2} :
         /\ calls[c].op = "connect" /\ calls[c].value = PROVIDER
         /\ calls[d].op = "disconnect" )
  => _wallet = (IF calls[2].op = "disconnect" THEN NULL ELSE PROVIDER)

\* the calls started by a click that are still pending
ClickPending == {i \in PendingCalls : calls[i].by = "click"}

\* C10 as stated: no connect or disconnect call of the adapter is started
\* while another one, from a click or from the eager connect at mount, is
\* pending.
C10_OneCallAtATime == Cardinality(PendingCalls) <= 1

\* C10, amended: a click made while the connecting flag is set, or while a
\* call started by a click is pending, starts no adapter call; a call
\* started by a click is pending only while the flag is set.
C10_ClicksAreSequential ==
  [][ /\ (nClicks' # nClicks /\ (connecting \/ ClickPending # {})) => calls' = calls
      /\ ClickPending # {} => connecting ]_vars

\* the button was clicked again while the connect of the first click was
\* pending, and no second call was started
C10_Witness ==
  /\ nClicks = 2
  /\ connecting
  /\ Cardinality({i \in DOMAIN calls : calls[i].by = "click"}) = 1
  /\ ClickPending # {}

\* C12: init registers exactly the callbacks of its options, NULL for an
\* omitted one, and leaves _wallet alone; nothing but init changes them; and
\* every callback a call invokes, also a call made before that init, is one
\* given to the latest init, never one omitted there.
C12_LatestInitDecides ==
  [][ /\ callbackState' = lastInit'
      /\ lastInit' # lastInit => _wallet' = _wallet
      /\ \A i \in DOMAIN calls' :
           LET old == IF i \in DOMAIN calls THEN calls[i].invoked ELSE {} IN
           (calls'[i].invoked \ old) \subseteq
             ({lastInit[1], lastInit[2], lastInit[3]} \ {NULL}) ]_vars

\* the latest init gave an onAccept and omitted onReject; a connect invoked
\* that onAccept, which threw, and no onReject was invoked
C12_Witness ==
  /\ lastInit = <<"onAcceptThrows", NULL, NULL>>
  /\ \E i \in DOMAIN calls :
       /\ calls[i].op = "connect" /\ calls[i].pc = "done"
       /\ calls[i].cause = "accept_threw"
       /\ calls[i].invoked = {"onAcceptThrows"}
       /\ calls[i].reject = 0

\* C13: a connect call completes in one of two ways: it invoked the
\* registered onAccept once and no onReject, set _wallet and resolved to the
\* wallet; or it invoked the registered onReject once and no onAccept, did
\* not set _wallet and resolved to null.
C13_ExactlyOneOutcome ==
  [][ \A i \in DOMAIN calls' :
        (Completes(i) /\ calls'[i].op = "connect") =>
          LET c == calls'[i] IN
          /\ c.outcome = "resolved"
          /\ \/ /\ c.accept = (IF _onAcceptCallback # NULL THEN 1 ELSE 0)
                /\ c.reject = 0
                /\ c.local # NULL /\ _wallet' = c.local
                /\ c.value = c.local
             \/ /\ c.reject = (IF _onRejectCallback # NULL THEN 1 ELSE 0)
                /\ c.accept = 0
                /\ c.local = NULL /\ _wallet' = _wallet
                /\ c.value = NULL ]_vars

\* C14: whenever no connect, eagerConnect or disconnect call is in flight,
\* the wallet state of the StickyHeader is non-null exactly if the adapter's
\* _wallet (what getWallet() returns) is non-null.
C14_UiAgreesWithAdapter ==
  PendingCalls = {} => ((wallet # NULL) <=> (getWallet # NULL))

\* C15: whenever the wallet state of the StickyHeader is null its
\* pending-transactions list is empty: an answer to a getPendingTransactions
\* request made before the disconnect does not fill the list again.
C15_NoListWithoutWallet ==
  wallet = NULL => pendingTransactions = NoTransactions

\* C11: a send-transfer or choice action the wallet did not answer with
\* SIGN_REQUEST_APPROVED ends with an error notification and no success
\* notification: the promise handed to toast.promise resolves only if the
\* wallet approved.
C11_FailureShownAsError ==
  (action.pc = "done" /\ ~action.approved) =>
    /\ action.outcome = "rejected"
    /\ action.toasts \cap {"success", "promise_success"} = {}
    /\ action.toasts \cap {"error", "promise_error"} # {}

====
